---- MODULE Spec2Model ----
(***************************************************************************)
(* Model of the four Playwright visual-verification scripts of knckviz:    *)
(*   verification/verify_option_pricing.py      (run)                       *)
(*   verification/verify_rl_landscape.py        (verify_rl_landscape)       *)
(*   verification/verify_efficient_frontier.py  (verify_efficient_frontier) *)
(*   home/jules/verification/verify_order_book.py (verify_order_book)       *)
(* One script is executed as an OS process, possibly several times in a    *)
(* row; the filesystem survives from one execution to the next.  Every     *)
(* call into the browser either returns or raises; which of the two         *)
(* happens is an input of the step, drawn when the step executes and        *)
(* recorded in env.                                                         *)
(***************************************************************************)
EXTENDS Integers, Sequences, FiniteSets

VARIABLES
    script,      \* which of the four scripts this process executes
    run,         \* number of the current execution (1, 2, ...)
    pc,          \* position of the interpreter in the script
    ip,          \* index of the next statement of the try body
    exc,         \* the exception in flight ("" when none)
    env,         \* what the browser, the page and the disk answered so far
    stdout,      \* lines printed by print()
    stderr,      \* tracebacks printed by the interpreter
    exitStatus,  \* exit status of the process (Running until it ends)
    fs,          \* path -> number of the run that last wrote it (0: no file)
    playwright,  \* state of the sync_playwright() context manager
    launched,    \* successful chromium.launch() calls of this run
    closeCalls,  \* browser.close() calls of this run
    shots,       \* page.screenshot() calls of this run: <<path, ok>>
    trace,       \* statements of the try body executed in this run
    pageUrl,     \* URL the page shows ("" before the first goto)
    pageAlive,   \* FALSE once the page has crashed
    selected,    \* option selected in the combobox ("" when none)
    toggled,     \* labels of the checkboxes clicked in this run
    history,     \* one entry per finished run: did it execute its whole try body
    viewport     \* viewport the page was created with (<< >>: none yet)

vars == <<script, run, pc, ip, exc, env, stdout, stderr, exitStatus, fs,
          playwright, launched, closeCalls, shots, trace, pageUrl, pageAlive,
          selected, toggled, history, viewport>>

-----------------------------------------------------------------------------
(* Bounds of the model *)

MaxRuns == 2        \* executions of the script in a row
MaxCombos == 2      \* comboboxes the order-book page may render
MaxBoxes == 3       \* checkboxes the order-book page may render
CanvasFast == 1000  \* a canvas that is attached after 1 s
CanvasSlow == 20000 \* a canvas that is attached after 20 s

-----------------------------------------------------------------------------
(* Constants of the scripts *)

OptionPricing == "verify_option_pricing"
RlLandscape == "verify_rl_landscape"
EfficientFrontier == "verify_efficient_frontier"
OrderBook == "verify_order_book"
Scripts == {OptionPricing, RlLandscape, EfficientFrontier, OrderBook}

ReadyTimeout == 10000     \* wait_for_selector("canvas", timeout=10000)
DefaultTimeout == 30000   \* wait_for_selector without a timeout argument
SettleShort == 2000       \* wait_for_timeout(2000)
SettleLong == 3000        \* wait_for_timeout(3000)
CheckboxIndex == 1        \* checkboxes.nth(1)

HomeUrl == "http://localhost:4321/viz"

TargetUrl(s) ==
    CASE s = OptionPricing -> "http://localhost:4321/viz/option-pricing"
      [] s = RlLandscape -> "http://localhost:4321/viz/rl-value-landscape"
      [] s = EfficientFrontier -> "http://localhost:4321/viz/efficient-frontier"
      [] s = OrderBook -> "http://localhost:4321/viz/order-book"

PrimaryPath(s) ==
    CASE s = OptionPricing -> "verification/option_pricing.png"
      [] s = RlLandscape -> "verification/rl_landscape.png"
      [] s = EfficientFrontier -> "verification/efficient_frontier_full.png"
      [] s = OrderBook -> "/home/jules/verification/order_book_viz.png"

DiagPath == "verification/error_state.png"

Paths == {PrimaryPath(s) : s \in Scripts} \cup {DiagPath}

SuccessLine(s) ==
    CASE s = OptionPricing -> "Screenshot saved."
      [] s = RlLandscape -> "Screenshot taken: verification/rl_landscape.png"
      [] s = EfficientFrontier ->
            "Screenshot saved to verification/efficient_frontier_full.png"
      [] s = OrderBook ->
            "Screenshot taken at /home/jules/verification/order_book_viz.png"

\* A statement of a try body: op is the call, arg its main argument, n its
\* number (a timeout, a delay or a position).
Stmt(op, arg, n) == [op |-> op, arg |-> arg, n |-> n]

OptionPricingBody ==
    << Stmt("print", "Navigating to home page...", 0),
       Stmt("goto", HomeUrl, 0),
       Stmt("wait_for_selector", "body", DefaultTimeout),
       Stmt("print", "Checking for new card...", 0),
       Stmt("expect_visible", "Option Path Tracer", 0),
       Stmt("print", "Navigating to visualization...", 0),
       Stmt("goto", TargetUrl(OptionPricing), 0),
       Stmt("print", "Waiting for canvas...", 0),
       Stmt("wait_for_selector", "canvas", ReadyTimeout),
       Stmt("print", "Waiting for simulation to run...", 0),
       Stmt("wait_for_timeout", "", SettleShort),
       Stmt("print", "Taking screenshot...", 0),
       Stmt("screenshot", PrimaryPath(OptionPricing), 0),
       Stmt("print", SuccessLine(OptionPricing), 0) >>

RlLandscapeBody ==
    << Stmt("goto", TargetUrl(RlLandscape), 0),
       Stmt("wait_for_selector", "canvas", ReadyTimeout),
       Stmt("wait_for_timeout", "", SettleShort),
       Stmt("click_text", "Start Simulation", 0),
       Stmt("wait_for_timeout", "", SettleLong),
       Stmt("screenshot", PrimaryPath(RlLandscape), 0),
       Stmt("print", SuccessLine(RlLandscape), 0) >>

EfficientFrontierBody ==
    << Stmt("goto", TargetUrl(EfficientFrontier), 0),
       Stmt("wait_for_selector", "canvas", DefaultTimeout),
       Stmt("wait_for_timeout", "", SettleShort),
       Stmt("screenshot", PrimaryPath(EfficientFrontier), 0),
       Stmt("print", SuccessLine(EfficientFrontier), 0) >>

OrderBookBody ==
    << Stmt("goto", TargetUrl(OrderBook), 0),
       Stmt("wait_for_selector", "canvas", ReadyTimeout),
       Stmt("wait_for_timeout", "", SettleShort),
       Stmt("count_check", "combobox", 0),
       Stmt("select_option", "VOLATILE", 0),
       Stmt("click_nth", "checkbox", CheckboxIndex),
       Stmt("wait_for_timeout", "", SettleShort),
       Stmt("screenshot", PrimaryPath(OrderBook), 0),
       Stmt("print", SuccessLine(OrderBook), 0) >>

Body(s) ==
    CASE s = OptionPricing -> OptionPricingBody
      [] s = RlLandscape -> RlLandscapeBody
      [] s = EfficientFrontier -> EfficientFrontierBody
      [] s = OrderBook -> OrderBookBody

\* Slip: every handler takes the screenshot of the failure state.
HasDiagnosticAlways(s) == s \in Scripts

\* browser.new_page() / browser.new_page(viewport={"width": 1600, "height": 1000})
Viewport(s) ==
    IF s = EfficientFrontier THEN [width |-> 1600, height |-> 1000]
    ELSE [width |-> 1280, height |-> 720]

\* Only the option-pricing handler takes a screenshot of the failure state.
HasDiagnostic(s) == s = OptionPricing

\* f"Error: {e}"
FmtError(e) == "Error: " \o e

-----------------------------------------------------------------------------
(* What the outside world can answer *)

Running == 0 - 1     \* exitStatus while the process has not ended
Unseen == 0 - 1      \* a number of env that no step has read yet
Never == DefaultTimeout + CanvasSlow   \* a canvas that is never attached

CanvasTimes == {CanvasFast, CanvasSlow, Never}

BoxLabels == {"A", "Deep MM", "C"}

\* The checkboxes of the page in document order: distinct labels.
BoxLists ==
    UNION { { b \in [1..n -> BoxLabels] :
                \A i, j \in 1..n : i # j => b[i] # b[j] } : n \in 0..MaxBoxes }

Answer(ok) == IF ok THEN "yes" ELSE "no"

NoEnv ==
    [launch |-> "?", page |-> "?", home |-> "?", target |-> "?",
     canvasAt |-> Unseen, crash |-> "?", card |-> "?", button |-> "?",
     combos |-> Unseen, volatile |-> "?", boxes |-> << >>,
     disk |-> "?", diag |-> "?", close |-> "?"]

NoFiles == [p \in Paths |-> 0]

-----------------------------------------------------------------------------
(* Python's sequencing of the try body *)

Cur == Body(script)[ip]

InTry(op) == pc = "try" /\ ip \in 1..Len(Body(script)) /\ Cur.op = op

\* Slip: launch and page creation sit inside the try statement.
AfterSetupFailureInTry == "except"

\* Where control goes when chromium.launch() or browser.new_page() raises:
\* both calls precede the try statement, so the with block is left at once.
AfterSetupFailure == "with_exit"

\* The statement returned: control moves to the next statement, and after
\* the last one to the finally clause.
StepOk ==
    /\ trace' = Append(trace, [ip |-> ip, op |-> Cur.op, ok |-> TRUE])
    /\ ip' = ip + 1
    /\ pc' = IF ip = Len(Body(script)) THEN "finally" ELSE "try"
    /\ exc' = exc

\* Slip: a statement that raised is passed over and the body goes on.
StepFailContinues(msg) ==
    /\ trace' = Append(trace, [ip |-> ip, op |-> Cur.op, ok |-> FALSE])
    /\ ip' = ip + 1
    /\ pc' = IF ip = Len(Body(script)) THEN "finally" ELSE "try"
    /\ exc' = exc

\* The statement raised: the rest of the try body is skipped and control
\* moves to the except clause with the exception in flight.
StepFail(msg) ==
    /\ trace' = Append(trace, [ip |-> ip, op |-> Cur.op, ok |-> FALSE])
    /\ ip' = ip
    /\ pc' = "except"
    /\ exc' = msg

Step(ok, msg) == IF ok THEN StepOk ELSE StepFail(msg)

-----------------------------------------------------------------------------
(* What each browser call does with the answer it gets *)

\* wait_for_selector(sel, timeout=t): the element attached at time at is
\* found when it is there before the timeout expires.
SelectorFound(at, t) == at < t

\* Slip: the first of several comboboxes is used.
SelectWorksAny(combos, volatile) == combos >= 1 /\ volatile

\* regime_select.select_option("VOLATILE"): the locator must resolve to one
\* element (strict mode) and that element must offer the option.
SelectWorks(combos, volatile) == combos = 1 /\ volatile

\* Slip: the checkbox is found by its label where the label is on the page.
NthLabelByText(boxes, n) ==
    IF \E i \in 1..Len(boxes) : boxes[i] = "Deep MM" THEN "Deep MM"
    ELSE boxes[n + 1]

\* checkboxes.nth(n): the element at zero-based position n, if there is one.
NthExists(boxes, n) == n + 1 <= Len(boxes)

NthLabel(boxes, n) == boxes[n + 1]

\* Slip: the locator is built but its visibility is never asserted.
ExpectNeverRaises(visible) == FALSE

\* expect(new_card).to_be_visible() raises when the text is not visible.
ExpectRaises(visible) == ~visible

\* page.screenshot(): fails on a crashed page or an unwritable path.
ShotWorks(alive, writable) == alive /\ writable

\* Slip: a screenshot call that raises leaves a file behind all the same.
WriteFileAlways(files, path, ok, r) == [files EXCEPT ![path] = r]

\* The file a screenshot call leaves behind: written when the call works,
\* untouched when it raises.
WriteFile(files, path, ok, r) == IF ok THEN [files EXCEPT ![path] = r] ELSE files

\* Slip: the handler guards its own screenshot.
DiagExcSwallowed(ok) == ""

\* The exception left in flight by the handler's own screenshot.
DiagExc(ok) == IF ok THEN "" ELSE "screenshot failed"

-----------------------------------------------------------------------------
Init ==
    /\ script \in Scripts
    /\ run = 1
    /\ pc = "start"
    /\ ip = 1
    /\ exc = ""
    /\ env = NoEnv
    /\ stdout = << >>
    /\ stderr = << >>
    /\ exitStatus = Running
    /\ fs = NoFiles
    /\ playwright = "none"
    /\ launched = 0
    /\ closeCalls = 0
    /\ shots = << >>
    /\ trace = << >>
    /\ pageUrl = ""
    /\ pageAlive = TRUE
    /\ selected = ""
    /\ toggled = {}
    /\ history = << >>
    /\ viewport = << >>

\* if __name__ == "__main__": run()  --  with sync_playwright() as p:
Start ==
    /\ pc = "start"
    /\ playwright' = "started"
    /\ pc' = "launch"
    /\ UNCHANGED <<script, run, ip, exc, env, stdout, stderr, exitStatus, fs,
                   launched, closeCalls, shots, trace, pageUrl, pageAlive,
                   selected, toggled, history, viewport>>

\* browser = p.chromium.launch(headless=True)
Launch ==
    /\ pc = "launch"
    /\ \E ok \in BOOLEAN :
        /\ env' = [env EXCEPT !.launch = Answer(ok)]
        /\ launched' = IF ok THEN launched + 1 ELSE launched
        /\ exc' = IF ok THEN exc ELSE "browser executable missing"
        /\ pc' = IF ok THEN "new_page" ELSE AfterSetupFailure
    /\ UNCHANGED <<script, run, ip, stdout, stderr, exitStatus, fs, playwright,
                   closeCalls, shots, trace, pageUrl, pageAlive, selected,
                   toggled, history, viewport>>

\* page = browser.new_page()
NewPage ==
    /\ pc = "new_page"
    /\ \E ok \in BOOLEAN :
        /\ env' = [env EXCEPT !.page = Answer(ok)]
        /\ exc' = IF ok THEN exc ELSE "new_page failed"
        /\ pc' = IF ok THEN "try" ELSE AfterSetupFailure
        /\ viewport' = IF ok THEN Viewport(script) ELSE viewport
    /\ ip' = 1
    /\ UNCHANGED <<script, run, stdout, stderr, exitStatus, fs, playwright,
                   launched, closeCalls, shots, trace, pageUrl, pageAlive,
                   selected, toggled, history>>

\* print("...")
PrintLine ==
    /\ InTry("print")
    /\ stdout' = Append(stdout, Cur.arg)
    /\ StepOk
    /\ UNCHANGED <<script, run, env, stderr, exitStatus, fs, playwright,
                   launched, closeCalls, shots, pageUrl, pageAlive, selected,
                   toggled, history, viewport>>

\* page.goto(url)
Goto ==
    /\ InTry("goto")
    /\ \E up \in BOOLEAN :
        /\ env' = IF Cur.arg = TargetUrl(script)
                  THEN [env EXCEPT !.target = Answer(up)]
                  ELSE [env EXCEPT !.home = Answer(up)]
        /\ pageUrl' = IF up THEN Cur.arg ELSE pageUrl
        /\ Step(up, "net::ERR_CONNECTION_REFUSED")
    /\ UNCHANGED <<script, run, stdout, stderr, exitStatus, fs, playwright,
                   launched, closeCalls, shots, pageAlive, selected, toggled,
                   history, viewport>>

\* page.wait_for_selector(sel) / page.wait_for_selector(sel, timeout=t)
WaitForSelector ==
    /\ InTry("wait_for_selector")
    /\ \E at \in (IF Cur.arg = "canvas" THEN CanvasTimes ELSE {0}) :
        /\ env' = IF Cur.arg = "canvas"
                  THEN [env EXCEPT !.canvasAt = at] ELSE env
        /\ Step(SelectorFound(at, Cur.n), "Timeout exceeded")
    /\ UNCHANGED <<script, run, stdout, stderr, exitStatus, fs, playwright,
                   launched, closeCalls, shots, pageUrl, pageAlive, selected,
                   toggled, history, viewport>>

\* page.wait_for_timeout(ms)
WaitForTimeout ==
    /\ InTry("wait_for_timeout")
    /\ \E crash \in BOOLEAN :
        /\ env' = [env EXCEPT !.crash = Answer(crash)]
        /\ pageAlive' = ~crash
        /\ Step(~crash, "Page crashed")
    /\ UNCHANGED <<script, run, stdout, stderr, exitStatus, fs, playwright,
                   launched, closeCalls, shots, pageUrl, selected, toggled,
                   history, viewport>>

\* new_card = page.get_by_text(text); expect(new_card).to_be_visible()
ExpectVisible ==
    /\ InTry("expect_visible")
    /\ \E visible \in BOOLEAN :
        /\ env' = [env EXCEPT !.card = Answer(visible)]
        /\ Step(~ExpectRaises(visible), "Locator expected to be visible")
    /\ UNCHANGED <<script, run, stdout, stderr, exitStatus, fs, playwright,
                   launched, closeCalls, shots, pageUrl, pageAlive, selected,
                   toggled, history, viewport>>

\* page.get_by_text("Start Simulation").click()
ClickText ==
    /\ InTry("click_text")
    /\ \E present \in BOOLEAN :
        /\ env' = [env EXCEPT !.button = Answer(present)]
        /\ Step(present, "Timeout exceeded")
    /\ UNCHANGED <<script, run, stdout, stderr, exitStatus, fs, playwright,
                   launched, closeCalls, shots, pageUrl, pageAlive, selected,
                   toggled, history, viewport>>

\* regime_select = page.get_by_role("combobox")
\* if regime_select.count() == 0: print("Regime selector not found")
CountCheck ==
    /\ InTry("count_check")
    /\ \E n \in 0..MaxCombos :
        /\ env' = [env EXCEPT !.combos = n]
        /\ stdout' = IF n = 0 THEN Append(stdout, "Regime selector not found")
                     ELSE stdout
    /\ StepOk
    /\ UNCHANGED <<script, run, stderr, exitStatus, fs, playwright, launched,
                   closeCalls, shots, pageUrl, pageAlive, selected, toggled,
                   history, viewport>>

\* regime_select.select_option("VOLATILE")
SelectOption ==
    /\ InTry("select_option")
    /\ \E volatile \in BOOLEAN :
        /\ env' = [env EXCEPT !.volatile = Answer(volatile)]
        /\ selected' = IF SelectWorks(env.combos, volatile) THEN Cur.arg
                       ELSE selected
        /\ Step(SelectWorks(env.combos, volatile), "Timeout exceeded")
    /\ UNCHANGED <<script, run, stdout, stderr, exitStatus, fs, playwright,
                   launched, closeCalls, shots, pageUrl, pageAlive, toggled,
                   history, viewport>>

\* deep_mm_text = page.get_by_text("Deep MM")   (a locator that is never used)
\* checkboxes = page.get_by_role("checkbox"); checkboxes.nth(1).click()
ClickNth ==
    /\ InTry("click_nth")
    /\ \E boxes \in BoxLists :
        /\ env' = [env EXCEPT !.boxes = boxes]
        /\ toggled' = IF NthExists(boxes, Cur.n)
                      THEN toggled \cup {NthLabel(boxes, Cur.n)} ELSE toggled
        /\ Step(NthExists(boxes, Cur.n), "Timeout exceeded")
    /\ UNCHANGED <<script, run, stdout, stderr, exitStatus, fs, playwright,
                   launched, closeCalls, shots, pageUrl, pageAlive, selected,
                   history, viewport>>

\* page.screenshot(path=..., full_page=True)
Screenshot ==
    /\ InTry("screenshot")
    /\ \E writable \in BOOLEAN :
        /\ env' = [env EXCEPT !.disk = Answer(writable)]
        /\ shots' = Append(shots, <<Cur.arg, ShotWorks(pageAlive, writable)>>)
        /\ fs' = WriteFile(fs, Cur.arg, ShotWorks(pageAlive, writable), run)
        /\ Step(ShotWorks(pageAlive, writable), "screenshot failed")
    /\ UNCHANGED <<script, run, stdout, stderr, exitStatus, playwright,
                   launched, closeCalls, pageUrl, pageAlive, selected, toggled,
                   history, viewport>>

\* Slip: the handler prints the error and raises it again.
ExceptReraises ==
    /\ pc = "except"
    /\ stdout' = Append(stdout, FmtError(exc))
    /\ exc' = exc
    /\ pc' = IF HasDiagnostic(script) THEN "diag" ELSE "finally"
    /\ UNCHANGED <<script, run, ip, env, stderr, exitStatus, fs, playwright,
                   launched, closeCalls, shots, trace, pageUrl, pageAlive,
                   selected, toggled, history, viewport>>

\* except Exception as e: print(f"Error: {e}")
Except ==
    /\ pc = "except"
    /\ stdout' = Append(stdout, FmtError(exc))
    /\ exc' = ""
    /\ pc' = IF HasDiagnostic(script) THEN "diag" ELSE "finally"
    /\ UNCHANGED <<script, run, ip, env, stderr, exitStatus, fs, playwright,
                   launched, closeCalls, shots, trace, pageUrl, pageAlive,
                   selected, toggled, history, viewport>>

\* page.screenshot(path="verification/error_state.png")  (inside the handler)
DiagShot ==
    /\ pc = "diag"
    /\ \E writable \in BOOLEAN :
        /\ env' = [env EXCEPT !.diag = Answer(writable)]
        /\ shots' = Append(shots, <<DiagPath, ShotWorks(pageAlive, writable)>>)
        /\ fs' = WriteFile(fs, DiagPath, ShotWorks(pageAlive, writable), run)
        /\ exc' = DiagExc(ShotWorks(pageAlive, writable))
    /\ pc' = "finally"
    /\ UNCHANGED <<script, run, ip, stdout, stderr, exitStatus, playwright,
                   launched, closeCalls, trace, pageUrl, pageAlive, selected,
                   toggled, history, viewport>>

\* finally: browser.close()
Finally ==
    /\ pc = "finally"
    /\ closeCalls' = closeCalls + 1
    /\ \E ok \in BOOLEAN :
        /\ env' = [env EXCEPT !.close = Answer(ok)]
        /\ exc' = IF ok THEN exc ELSE "close failed"
    /\ pc' = "with_exit"
    /\ UNCHANGED <<script, run, ip, stdout, stderr, exitStatus, fs, playwright,
                   launched, shots, trace, pageUrl, pageAlive, selected,
                   toggled, history, viewport>>

\* Leaving the with block: the context manager stops Playwright and an
\* exception in flight leaves the run function.
WithExit ==
    /\ pc = "with_exit"
    /\ playwright' = "stopped"
    /\ pc' = "main"
    /\ UNCHANGED <<script, run, ip, exc, env, stdout, stderr, exitStatus, fs,
                   launched, closeCalls, shots, trace, pageUrl, pageAlive,
                   selected, toggled, history, viewport>>

\* The whole try body was executed, the last statement included.
BodyCompleted ==
    /\ Len(trace) = Len(Body(script))
    /\ \A i \in 1..Len(trace) : trace[i].ok

\* Back in the module's top level: an exception that left the run function
\* is printed by the interpreter as a traceback and the process exits 1;
\* otherwise the process exits 0.
MainExit ==
    /\ pc = "main"
    /\ stderr' = IF exc # "" THEN Append(stderr, "Traceback: " \o exc)
                 ELSE stderr
    /\ exitStatus' = IF exc # "" THEN 1 ELSE 0
    /\ history' = Append(history, [completed |-> BodyCompleted])
    /\ pc' = "done"
    /\ UNCHANGED <<script, run, ip, exc, env, stdout, fs, playwright,
                   launched, closeCalls, shots, trace, pageUrl, pageAlive,
                   selected, toggled, viewport>>

\* The same script is started again; only the files on disk remain.
NewRun ==
    /\ pc = "done"
    /\ run < MaxRuns
    /\ run' = run + 1
    /\ pc' = "start"
    /\ ip' = 1
    /\ exc' = ""
    /\ env' = NoEnv
    /\ stdout' = << >>
    /\ stderr' = << >>
    /\ exitStatus' = Running
    /\ playwright' = "none"
    /\ launched' = 0
    /\ closeCalls' = 0
    /\ shots' = << >>
    /\ trace' = << >>
    /\ pageUrl' = ""
    /\ pageAlive' = TRUE
    /\ selected' = ""
    /\ toggled' = {}
    /\ viewport' = << >>
    /\ UNCHANGED <<script, fs, history>>

Next ==
    \/ Start
    \/ Launch
    \/ NewPage
    \/ PrintLine
    \/ Goto
    \/ WaitForSelector
    \/ WaitForTimeout
    \/ ExpectVisible
    \/ ClickText
    \/ CountCheck
    \/ SelectOption
    \/ ClickNth
    \/ Screenshot
    \/ Except
    \/ DiagShot
    \/ Finally
    \/ WithExit
    \/ MainExit
    \/ NewRun

Spec == Init /\ [][Next]_vars

-----------------------------------------------------------------------------
(* Vocabulary of the properties *)

Primary == PrimaryPath(script)

Ended == pc \in {"main", "done"}

Done == pc = "done"

ErrorMessages ==
    {"net::ERR_CONNECTION_REFUSED", "Timeout exceeded", "Page crashed",
     "Locator expected to be visible", "screenshot failed",
     "browser executable missing", "new_page failed", "close failed"}

IsErrorLine(l) == \E m \in ErrorMessages : l = FmtError(m)

HasErrorLine == \E i \in 1..Len(stdout) : IsErrorLine(stdout[i])

Printed(l) == \E i \in 1..Len(stdout) : stdout[i] = l

Attempted(path) == \E i \in 1..Len(shots) : shots[i][1] = path

DiagFailed == \E i \in 1..Len(shots) : shots[i] = <<DiagPath, FALSE>>

StepFailed == \E i \in 1..Len(trace) : ~trace[i].ok

NavFailed == env.home = "no" \/ env.target = "no"

\* The timeout the script gives to its wait for the canvas.
CanvasTimeout ==
    IF script = EfficientFrontier THEN DefaultTimeout ELSE ReadyTimeout

CanvasInTime == env.canvasAt # Unseen /\ env.canvasAt < CanvasTimeout

Reachable == env.target = "yes" /\ (script = OptionPricing => env.home = "yes")

\* What the script needs of the page besides the canvas.
ControlsFit ==
    CASE script = OptionPricing -> env.card = "yes"
      [] script = RlLandscape -> env.button = "yes"
      [] script = EfficientFrontier -> TRUE
      [] script = OrderBook ->
            env.combos = 1 /\ env.volatile = "yes" /\ Len(env.boxes) >= 2

-----------------------------------------------------------------------------
(* C1 *)

-----------------------------------------------------------------------------
(* C2 *)

\* C2 (as claimed): whatever step fails, no exception leaves the run function
\* and the process ends with exit status 0.
C2_NeverRaises == Done => (exitStatus = 0 /\ stderr = << >>)

\* C2 (amended): a failure of a statement of the try body is caught and
\* printed as an Error line, and the process ends with exit status 0 unless
\* launch, page creation, the handler's own screenshot or browser.close()
\* failed; in each of those four cases the exception leaves the run function
\* and the process ends with exit status 1.
C2_CaughtInsideTry ==
    /\ (StepFailed /\ pc # "except") =>
          /\ HasErrorLine
          /\ pc \in {"diag", "finally", "with_exit", "main", "done"}
    /\ Done =>
          /\ exitStatus \in {0, 1}
          /\ exitStatus = 1 <=>
                \/ env.launch = "no"
                \/ env.page = "no"
                \/ DiagFailed
                \/ env.close = "no"
          /\ (exitStatus = 1) <=> (stderr # << >>)

C2_Witness == Done /\ StepFailed /\ exitStatus = 0 /\ HasErrorLine

-----------------------------------------------------------------------------
(* C3 *)

\* C3 (as claimed): when the browser and the disk work, the page is reachable
\* and the canvas appears within the readiness timeout, the run ends with the
\* screenshot written to the primary path, whatever controls or content the
\* page has.
C3_CanvasSuffices ==
    ( /\ Done
      /\ env.launch = "yes" /\ env.page = "yes"
      /\ Reachable /\ CanvasInTime
      /\ env.crash # "yes" /\ env.disk # "no" ) => fs[Primary] = run

\* C3 (amended): the run ends with the screenshot written to the primary path
\* exactly when, besides the page being reachable and the canvas appearing
\* within the timeout, the browser launched, the page was created and did not
\* crash, the capture itself worked and the page's controls fit the script:
\* the text "Option Path Tracer" visible (option pricing), a "Start
\* Simulation" element to click (rl landscape), exactly one combobox offering
\* VOLATILE and at least two checkboxes (order book), nothing for the
\* efficient frontier.
C3_ScreenshotIffAllStepsPass ==
    Done =>
        ( fs[Primary] = run <=>
            /\ env.launch = "yes" /\ env.page = "yes"
            /\ Reachable /\ CanvasInTime
            /\ env.crash = "no" /\ env.disk = "yes"
            /\ ControlsFit )

C3_Witness ==
    /\ Done /\ script = OrderBook /\ Reachable /\ CanvasInTime
    /\ env.combos = 2 /\ fs[Primary] # run

-----------------------------------------------------------------------------
(* C4 *)

\* C4 (as claimed): when a navigation fails the run ends without raising, an
\* Error line is printed, nothing is written to the primary path in that run,
\* and the option-pricing script alone writes verification/error_state.png.
C4_NavFailureNeverRaises ==
    (Done /\ NavFailed) =>
        /\ exitStatus = 0
        /\ HasErrorLine
        /\ ~Attempted(Primary) /\ fs[Primary] # run
        /\ (fs[DiagPath] = run) <=> (script = OptionPricing)

\* C4 (amended): when a navigation fails an Error line with the navigation
\* error is printed and nothing is written to the primary path in that run;
\* the option-pricing script alone attempts the diagnostic screenshot, which
\* is written when that capture works; the run ends without raising unless
\* that capture or browser.close() fails.
C4_NavFailureHandled ==
    (Done /\ NavFailed) =>
        /\ Printed(FmtError("net::ERR_CONNECTION_REFUSED"))
        /\ ~Attempted(Primary) /\ fs[Primary] # run
        /\ Attempted(DiagPath) <=> (script = OptionPricing)
        /\ (fs[DiagPath] = run) <=> (script = OptionPricing /\ env.diag = "yes")
        /\ (exitStatus = 0) <=> (env.diag # "no" /\ env.close = "yes")

C4_Witness ==
    /\ Done /\ script = OptionPricing /\ env.target = "no"
    /\ fs[DiagPath] = run /\ exitStatus = 0

-----------------------------------------------------------------------------
(* C5 *)

\* C5: in the option-pricing run, once the text "Option Path Tracer" was found
\* not visible, the run never navigates to /viz/option-pricing, never waits
\* for the canvas and never writes or attempts verification/option_pricing.png,
\* and the handler prints an Error line.
C5_NoDetailPageWithoutCard ==
    env.card = "no" =>
        /\ pageUrl # TargetUrl(OptionPricing)
        /\ env.target = "?"
        /\ env.canvasAt = Unseen
        /\ ~Attempted(Primary) /\ fs[Primary] # run
        /\ \A i \in 1..Len(trace) : trace[i].op # "screenshot"
        /\ ~Printed("Navigating to visualization...")
        /\ pc \in {"except", "diag", "finally", "with_exit", "main", "done"}
        /\ pc # "except" => Printed(FmtError("Locator expected to be visible"))

C5_Witness == Done /\ script = OptionPricing /\ env.card = "no" /\ HasErrorLine

-----------------------------------------------------------------------------
(* C6 *)

\* C6: when launching the browser fails, no statement of the try body and no
\* handler runs, no screenshot (primary or diagnostic) is attempted, and the
\* process ends with the exception printed as a traceback.
C6_LaunchFailureAborts ==
    env.launch = "no" =>
        /\ shots = << >>
        /\ trace = << >>
        /\ fs[Primary] # run /\ fs[DiagPath] # run
        /\ pc \in {"with_exit", "main", "done"}
        /\ Done => /\ stderr = << "Traceback: browser executable missing" >>
                   /\ exitStatus = 1

C6_Witness == Done /\ env.launch = "no" /\ stderr # << >>

-----------------------------------------------------------------------------
(* C7 *)

\* C7 (as claimed): whenever the screenshot exists at the primary path after
\* a run, that most recent run reached its capture without a failure.
C7_FileMeansLastRunPassed ==
    (Done /\ fs[Primary] # 0) => history[run].completed

\* C7 (amended): whenever the screenshot exists at the primary path after a
\* run, the run that wrote it, which need not be the most recent one, executed
\* its whole try body without a failure; a run that failed neither writes
\* nor removes the primary path, so the file is the one of the latest run
\* that passed and survives every later failed run.
C7_FileMeansWriterPassed ==
    Done =>
        /\ fs[Primary] \in 0..run
        /\ fs[Primary] # 0 => history[fs[Primary]].completed
        /\ \A r \in 1..run : history[r].completed => fs[Primary] >= r

C7_Witness ==
    Done /\ run = 2 /\ fs[Primary] = 1 /\ ~history[2].completed

-----------------------------------------------------------------------------
(* C8 *)

\* C8: in the option-pricing run, when a statement fails and the handler's
\* screenshot fails too, the second exception is in flight after the Error
\* line was printed, browser.close() is still called once, and the exception
\* leaves the run (traceback, exit status 1); the other three scripts never
\* attempt the diagnostic screenshot.
C8_DiagFailurePropagates ==
    /\ DiagFailed =>
          /\ script = OptionPricing
          /\ StepFailed /\ HasErrorLine
          /\ pc = "finally" => (exc = "screenshot failed" /\ closeCalls = 0)
          /\ pc \in {"with_exit", "main", "done"} => (exc # "" /\ closeCalls = 1)
          /\ Done => (exitStatus = 1 /\ stderr # << >>)
    /\ script # OptionPricing => (~Attempted(DiagPath) /\ fs[DiagPath] = 0)

C8_Witness == Done /\ DiagFailed /\ env.close = "yes" /\ exitStatus = 1

-----------------------------------------------------------------------------
(* C9 *)

\* C9: in the order-book run the checkbox clicked is the one at zero-based
\* position 1 of the page's checkboxes, whatever its label; and whenever
\* everything but the labels is in order (one combobox offering VOLATILE, at
\* least two checkboxes, browser, page and disk working) the run ends with
\* the screenshot and without an Error line, "Deep MM" at position 1 or not.
C9_SecondCheckboxClicked ==
    script = OrderBook =>
        /\ toggled # {} => toggled = {env.boxes[CheckboxIndex + 1]}
        /\ ( /\ Done
             /\ env.launch = "yes" /\ env.page = "yes"
             /\ Reachable /\ CanvasInTime /\ env.crash = "no"
             /\ env.combos = 1 /\ env.volatile = "yes"
             /\ Len(env.boxes) >= 2 /\ env.disk = "yes" ) =>
                 /\ toggled = {env.boxes[2]}
                 /\ fs[Primary] = run
                 /\ Printed(SuccessLine(OrderBook))
                 /\ ~HasErrorLine

C9_Witness ==
    /\ Done /\ script = OrderBook /\ Len(env.boxes) = 3
    /\ env.boxes[3] = "Deep MM" /\ toggled = {env.boxes[2]}
    /\ fs[Primary] = run /\ ~HasErrorLine

-----------------------------------------------------------------------------
(* C10 *)

\* C10: the statements of the try body are executed in the order of the
\* script, each after the previous one returned; after the first statement
\* that fails no later one is executed, only the handler and the teardown; so
\* the primary screenshot and the success line occur only when every earlier
\* statement succeeded.
C10_LinearSequence ==
    /\ Len(trace) <= Len(Body(script))
    /\ \A i \in 1..Len(trace) :
          /\ trace[i].ip = i
          /\ trace[i].op = Body(script)[i].op
          /\ i < Len(trace) => trace[i].ok
    /\ StepFailed => pc \in {"except", "diag", "finally", "with_exit", "main", "done"}
    /\ pc = "try" => ip = Len(trace) + 1
    /\ fs[Primary] = run =>
          \E i \in 1..Len(trace) :
              /\ trace[i].op = "screenshot"
              /\ \A j \in 1..i : trace[j].ok
    /\ Printed(SuccessLine(script)) =>
          (Len(trace) = Len(Body(script)) /\ ~StepFailed)

C10_Witness ==
    /\ Done /\ script = RlLandscape /\ env.button = "no"
    /\ Len(trace) = 4 /\ ~Attempted(Primary)

====
